---------------------------- MODULE Spec2Model ----------------------------
(***************************************************************************)
(* A model of the two components of the repository:                        *)
(*   - lru.Cache (src/lru/lru.go): an LRU cache built from a doubly linked *)
(*     list of elements and a map from key to list element;                *)
(*   - consistenthash.Map (src/unnamed/part_000): a consistent-hash ring.  *)
(* Each method is a pure operator from the receiver (a record of the       *)
(* struct's fields) to the receiver after the call; the actions apply the  *)
(* operators to the object under test and record what the caller saw.      *)
(***************************************************************************)
EXTENDS Integers, Sequences, FiniteSets, TLC

(* ------------------------------ bounds --------------------------------- *)
NumKeys == 3
NumVals == 2
MaxCap == 2
NumNodes == 4
MaxKey == 27
MaxReplicas == 2
MaxArgs == 2
MaxRing == 4

Keys == 1..NumKeys
Values == 1..NumVals
Capacities == 0..MaxCap

(* ----------------------- pointers, maps, lists ------------------------- *)
\* A Go pointer or map header is either nil or refers to an object.
Nil == <<>>
Ref(x) == <<x>>
IsNil(p) == p = Nil
Val(p) == p[1]

\* The zero interface value Get returns on a miss, and the nil *list.Element.
NoValue == 0
NilElem == 0

EmptyMap == <<>>
MapSet(f, k, v) == [x \in (DOMAIN f) \cup {k} |-> IF x = k THEN v ELSE f[x]]
MapDelete(f, k) == [x \in (DOMAIN f) \ {k} |-> f[x]]

Range(s) == {s[i] : i \in DOMAIN s}

\* container/list, as lru.go uses it: a list is the sequence of its elements
\* (their identities), front first.
ListPushFront(l, e) == <<e>> \o l
ListRemove(l, e) == SelectSeq(l, LAMBDA x : x # e)
ListMoveToFront(l, e) == IF e \in Range(l) THEN <<e>> \o ListRemove(l, e) ELSE l
ListBack(l) == IF Len(l) = 0 THEN NilElem ELSE l[Len(l)]

(* ------------------------------ lru.Cache ------------------------------ *)
\* A Cache is [MaxEntries, OnEvicted, ll, cache] plus
\*   elems: the list elements that are allocated, element -> its *entry;
\*   log:   what a recording OnEvicted callback has been called with;
\*   seen:  what the callback found in the Cache at each of these calls.
New(maxEntries) ==
    [MaxEntries |-> maxEntries,
     OnEvicted  |-> FALSE,
     ll         |-> Ref(<<>>),
     cache      |-> Ref(EmptyMap),
     elems      |-> EmptyMap,
     log        |-> <<>>,
     seen       |-> <<>>]

\* The elements still referenced from the list or the map; the rest is garbage.
Reachable(c) ==
    (IF IsNil(c.ll) THEN {} ELSE Range(Val(c.ll)))
        \cup (IF IsNil(c.cache) THEN {} ELSE Range(Val(c.cache)))

Collect(c) == [c EXCEPT !.elems = [e \in (DOMAIN c.elems) \cap Reachable(c) |-> c.elems[e]]]

\* Element identities are only ever compared for equality, so a Cache stands
\* for every Cache that differs from it by a renaming of its elements. Between
\* two operations the model keeps the one whose list elements are numbered from
\* the back of the list (the back is 1). A Cache holding an element that is not
\* in its list is left as it is.
Renumber(c) ==
    LET l == IF IsNil(c.ll) THEN <<>> ELSE Val(c.ll)
        n == Len(l)
        name == [e \in Range(l) |-> n + 1 - (CHOOSE i \in 1..n : l[i] = e)]
    IN  IF DOMAIN c.elems = Range(l) /\ Cardinality(Range(l)) = n
        THEN [c EXCEPT
                !.ll = IF IsNil(c.ll) THEN Nil ELSE Ref([i \in 1..n |-> n + 1 - i]),
                !.cache = IF IsNil(c.cache) THEN Nil
                          ELSE Ref([k \in DOMAIN Val(c.cache) |-> name[Val(c.cache)[k]]]),
                !.elems = [e \in 1..n |-> c.elems[l[n + 1 - e]]]]
        ELSE c

\* A fresh element: the lowest identity not in use.
NewElem(c) ==
    CHOOSE e \in 1..(Cardinality(DOMAIN c.elems) + 1) :
        /\ e \notin DOMAIN c.elems
        /\ \A x \in 1..(e - 1) : x \in DOMAIN c.elems

\* What a callback finds when it looks at the Cache it was called by: Len(),
\* the keys of the map and the keys of the entries in the list.
Look(c) ==
    [len   |-> IF IsNil(c.cache) THEN 0 ELSE Len(Val(c.ll)),
     index |-> IF IsNil(c.cache) THEN {} ELSE DOMAIN Val(c.cache),
     list  |-> IF IsNil(c.ll) THEN {} ELSE {c.elems[x].key : x \in Range(Val(c.ll))}]

\* removeElement without `delete(c.cache, kv.key)`.
removeElement_KeepsIndex(c, e) ==
    LET kv == c.elems[e]
        d  == [c EXCEPT !.ll = Ref(ListRemove(Val(c.ll), e))]
    IN  Collect(IF c.OnEvicted
                THEN [d EXCEPT !.log = Append(c.log, <<kv.key, kv.value>>),
                               !.seen = Append(c.seen, Look(d))]
                ELSE d)

\* removeElement that calls OnEvicted before it detaches the element.
removeElement_CallsBackFirst(c, e) ==
    LET kv == c.elems[e]
        d  == [c EXCEPT !.ll = Ref(ListRemove(Val(c.ll), e)),
                        !.cache = Ref(MapDelete(Val(c.cache), kv.key))]
    IN  Collect(IF c.OnEvicted
                THEN [d EXCEPT !.log = Append(c.log, <<kv.key, kv.value>>),
                               !.seen = Append(c.seen, Look(c))]
                ELSE d)

\* removeElement without the call of OnEvicted.
removeElement_NoCallback(c, e) ==
    LET kv == c.elems[e]
    IN  Collect([c EXCEPT !.ll = Ref(ListRemove(Val(c.ll), e)),
                          !.cache = Ref(MapDelete(Val(c.cache), kv.key))])

removeElement(c, e) ==
    LET kv == c.elems[e]
        d  == [c EXCEPT !.ll = Ref(ListRemove(Val(c.ll), e)),
                        !.cache = Ref(MapDelete(Val(c.cache), kv.key))]
    IN  Collect(IF c.OnEvicted
                THEN [d EXCEPT !.log = Append(c.log, <<kv.key, kv.value>>),
                               !.seen = Append(c.seen, Look(d))]
                ELSE d)

RemoveOldest(c) ==
    IF IsNil(c.cache)
    THEN c
    ELSE LET ele == ListBack(Val(c.ll))
         IN  IF ele # NilElem THEN removeElement(c, ele) ELSE c

Remove(c, key) ==
    IF IsNil(c.cache)
    THEN c
    ELSE IF key \in DOMAIN Val(c.cache)
         THEN removeElement(c, Val(c.cache)[key])
         ELSE c

\* Get without `c.ll.MoveToFront(ele)`.
Get_NoMoveToFront(c, key) ==
    IF IsNil(c.cache)
    THEN [c |-> c, value |-> NoValue, ok |-> FALSE]
    ELSE IF key \in DOMAIN Val(c.cache)
         THEN [c |-> c, value |-> c.elems[Val(c.cache)[key]].value, ok |-> TRUE]
         ELSE [c |-> c, value |-> NoValue, ok |-> FALSE]

\* Get that reports a miss in a non-nil map as found.
Get_MissFound(c, key) ==
    IF IsNil(c.cache)
    THEN [c |-> c, value |-> NoValue, ok |-> FALSE]
    ELSE IF key \in DOMAIN Val(c.cache)
         THEN LET ele == Val(c.cache)[key]
              IN  [c     |-> [c EXCEPT !.ll = Ref(ListMoveToFront(Val(c.ll), ele))],
                   value |-> c.elems[ele].value,
                   ok    |-> TRUE]
         ELSE [c |-> c, value |-> NoValue, ok |-> TRUE]

\* Get returns (value, ok); c is the cache after the call.
Get(c, key) ==
    IF IsNil(c.cache)
    THEN [c |-> c, value |-> NoValue, ok |-> FALSE]
    ELSE IF key \in DOMAIN Val(c.cache)
         THEN LET ele == Val(c.cache)[key]
              IN  [c     |-> [c EXCEPT !.ll = Ref(ListMoveToFront(Val(c.ll), ele))],
                   value |-> c.elems[ele].value,
                   ok    |-> TRUE]
         ELSE [c |-> c, value |-> NoValue, ok |-> FALSE]

\* Add with `c.ll.Len() > c.MaxEntries+1` as the test for eviction.
Add_EvictsLate(c, key, value) ==
    LET c1 == IF IsNil(c.cache)
              THEN [c EXCEPT !.cache = Ref(EmptyMap), !.ll = Ref(<<>>)]
              ELSE c
    IN  IF key \in DOMAIN Val(c1.cache)
        THEN LET ee == Val(c1.cache)[key]
             IN  [c1 EXCEPT !.ll = Ref(ListMoveToFront(Val(c1.ll), ee)),
                            !.elems[ee].value = value]
        ELSE LET ele == NewElem(c1)
                 c2  == [c1 EXCEPT
                           !.ll = Ref(ListPushFront(Val(c1.ll), ele)),
                           !.elems = MapSet(c1.elems, ele, [key |-> key, value |-> value]),
                           !.cache = Ref(MapSet(Val(c1.cache), key, ele))]
             IN  IF c2.MaxEntries # 0 /\ Len(Val(c2.ll)) > c2.MaxEntries + 1
                 THEN RemoveOldest(c2)
                 ELSE c2

\* Add without the assignment of the new value to a present key's entry.
Add_KeepsOldValue(c, key, value) ==
    LET c1 == IF IsNil(c.cache)
              THEN [c EXCEPT !.cache = Ref(EmptyMap), !.ll = Ref(<<>>)]
              ELSE c
    IN  IF key \in DOMAIN Val(c1.cache)
        THEN LET ee == Val(c1.cache)[key]
             IN  [c1 EXCEPT !.ll = Ref(ListMoveToFront(Val(c1.ll), ee))]
        ELSE LET ele == NewElem(c1)
                 c2  == [c1 EXCEPT
                           !.ll = Ref(ListPushFront(Val(c1.ll), ele)),
                           !.elems = MapSet(c1.elems, ele, [key |-> key, value |-> value]),
                           !.cache = Ref(MapSet(Val(c1.cache), key, ele))]
             IN  IF c2.MaxEntries # 0 /\ Len(Val(c2.ll)) > c2.MaxEntries
                 THEN RemoveOldest(c2)
                 ELSE c2

\* Add without `c.cache[key] = ele`.
Add_NoIndex(c, key, value) ==
    LET c1 == IF IsNil(c.cache)
              THEN [c EXCEPT !.cache = Ref(EmptyMap), !.ll = Ref(<<>>)]
              ELSE c
    IN  IF key \in DOMAIN Val(c1.cache)
        THEN LET ee == Val(c1.cache)[key]
             IN  [c1 EXCEPT !.ll = Ref(ListMoveToFront(Val(c1.ll), ee)),
                            !.elems[ee].value = value]
        ELSE LET ele == NewElem(c1)
                 c2  == [c1 EXCEPT
                           !.ll = Ref(ListPushFront(Val(c1.ll), ele)),
                           !.elems = MapSet(c1.elems, ele, [key |-> key, value |-> value])]
             IN  IF c2.MaxEntries # 0 /\ Len(Val(c2.ll)) > c2.MaxEntries
                 THEN RemoveOldest(c2)
                 ELSE c2

\* Add without `c.MaxEntries != 0` in the test for eviction.
Add_NoUnbounded(c, key, value) ==
    LET c1 == IF IsNil(c.cache)
              THEN [c EXCEPT !.cache = Ref(EmptyMap), !.ll = Ref(<<>>)]
              ELSE c
    IN  IF key \in DOMAIN Val(c1.cache)
        THEN LET ee == Val(c1.cache)[key]
             IN  [c1 EXCEPT !.ll = Ref(ListMoveToFront(Val(c1.ll), ee)),
                            !.elems[ee].value = value]
        ELSE LET ele == NewElem(c1)
                 c2  == [c1 EXCEPT
                           !.ll = Ref(ListPushFront(Val(c1.ll), ele)),
                           !.elems = MapSet(c1.elems, ele, [key |-> key, value |-> value]),
                           !.cache = Ref(MapSet(Val(c1.cache), key, ele))]
             IN  IF Len(Val(c2.ll)) > c2.MaxEntries
                 THEN RemoveOldest(c2)
                 ELSE c2

Add(c, key, value) ==
    LET c1 == IF IsNil(c.cache)
              THEN [c EXCEPT !.cache = Ref(EmptyMap), !.ll = Ref(<<>>)]
              ELSE c
    IN  IF key \in DOMAIN Val(c1.cache)
        THEN LET ee == Val(c1.cache)[key]
             IN  [c1 EXCEPT !.ll = Ref(ListMoveToFront(Val(c1.ll), ee)),
                            !.elems[ee].value = value]
        ELSE LET ele == NewElem(c1)
                 c2  == [c1 EXCEPT
                           !.ll = Ref(ListPushFront(Val(c1.ll), ele)),
                           !.elems = MapSet(c1.elems, ele, [key |-> key, value |-> value]),
                           !.cache = Ref(MapSet(Val(c1.cache), key, ele))]
             IN  IF c2.MaxEntries # 0 /\ Len(Val(c2.ll)) > c2.MaxEntries
                 THEN RemoveOldest(c2)
                 ELSE c2

CacheLen(c) == IF IsNil(c.cache) THEN 0 ELSE Len(Val(c.ll))

\* The orders in which `range c.cache` may visit the keys of the map; Clear
\* ranges over the map only when OnEvicted is set, and a nil map has no keys.
Perms(S) == {s \in [1..Cardinality(S) -> S] : \A i, j \in DOMAIN s : s[i] = s[j] => i = j}
RangeOrders(c) ==
    IF ~c.OnEvicted \/ IsNil(c.cache) THEN {<<>>} ELSE Perms(DOMAIN Val(c.cache))

\* Clear that discards the state before it ranges over the map.
Clear_DiscardsFirst(c, order) ==
    Collect([c EXCEPT !.ll = Nil, !.cache = Nil])

\* Clear without `c.ll = nil` and `c.cache = nil`.
Clear_KeepsState(c, order) ==
    LET visited == [i \in 1..Len(order) |->
                       LET kv == c.elems[Val(c.cache)[order[i]]]
                       IN  <<kv.key, kv.value>>]
    IN  [c EXCEPT !.log = c.log \o visited,
                  !.seen = c.seen \o [i \in 1..Len(order) |-> Look(c)]]

Clear(c, order) ==
    LET visited == [i \in 1..Len(order) |->
                       LET kv == c.elems[Val(c.cache)[order[i]]]
                       IN  <<kv.key, kv.value>>]
    IN  Collect([c EXCEPT !.log = c.log \o visited,
                          !.seen = c.seen \o [i \in 1..Len(order) |-> Look(c)],
                          !.ll = Nil, !.cache = Nil])

(* -------------------------- consistenthash.Map ------------------------- *)
\* A string is the sequence of its characters; the model's strings are made of
\* decimal digits, a digit character being its digit.
EmptyString == <<>>

RECURSIVE Itoa(_)
Itoa(i) == IF i < 10 THEN <<i>> ELSE Itoa(i \div 10) \o <<i % 10>>

\* The Hash functions a Map is constructed with:
\*   "atoi": the numeric value of the digit string (the hash of the spec's example);
\*   "sum":  the sum of the digits, a hash under which distinct nodes collide.
\* A Hash returns a uint32, which Add and Get convert to int; the hashes of the
\* model's strings are small numbers, which the conversion leaves as they are.
RECURSIVE Atoi(_)
Atoi(s) == IF s = <<>> THEN 0 ELSE 10 * Atoi(SubSeq(s, 1, Len(s) - 1)) + s[Len(s)]

RECURSIVE DigitSum(_)
DigitSum(s) == IF s = <<>> THEN 0 ELSE s[1] + DigitSum(Tail(s))

HashFns == {"atoi", "sum"}
Hash(fn, data) == IF fn = "atoi" THEN Atoi(data) ELSE DigitSum(data)

\* A Map is [hash, replicas, keys, hashMap]; keys is a slice of int, nil at first.
MapNew(replicas, fn) ==
    [hash |-> fn, replicas |-> replicas, keys |-> <<>>, hashMap |-> EmptyMap]

IsEmpty(m) == Len(m.keys) = 0

\* sort.Ints: insertion of each element into an ascending sequence.
RECURSIVE InsertSorted(_, _)
InsertSorted(s, x) ==
    IF s = <<>> THEN <<x>>
    ELSE IF x <= Head(s) THEN <<x>> \o s
    ELSE <<Head(s)>> \o InsertSorted(Tail(s), x)

RECURSIVE SortInts(_)
SortInts(s) == IF s = <<>> THEN <<>> ELSE InsertSorted(SortInts(Tail(s)), Head(s))

\* The inner loop of Add with `hashMap[hash] = strconv.Itoa(i) + key`.
RECURSIVE AddReplicas_MapsReplicaName(_, _, _)
AddReplicas_MapsReplicaName(m, key, i) ==
    IF i < m.replicas
    THEN LET hash == Hash(m.hash, Itoa(i) \o key)
         IN  AddReplicas_MapsReplicaName(
                 [m EXCEPT !.keys = Append(m.keys, hash),
                           !.hashMap = MapSet(m.hashMap, hash, Itoa(i) \o key)],
                 key, i + 1)
    ELSE m

\* The inner loop of Add with `i <= m.replicas`.
RECURSIVE AddReplicas_OneMore(_, _, _)
AddReplicas_OneMore(m, key, i) ==
    IF i <= m.replicas
    THEN LET hash == Hash(m.hash, Itoa(i) \o key)
         IN  AddReplicas_OneMore([m EXCEPT !.keys = Append(m.keys, hash),
                                           !.hashMap = MapSet(m.hashMap, hash, key)],
                                 key, i + 1)
    ELSE m

\* The inner loop of Add that leaves a position already in hashMap to its node.
RECURSIVE AddReplicas_FirstWins(_, _, _)
AddReplicas_FirstWins(m, key, i) ==
    IF i < m.replicas
    THEN LET hash == Hash(m.hash, Itoa(i) \o key)
         IN  AddReplicas_FirstWins(
                 [m EXCEPT !.keys = Append(m.keys, hash),
                           !.hashMap = IF hash \in DOMAIN m.hashMap
                                       THEN m.hashMap
                                       ELSE MapSet(m.hashMap, hash, key)],
                 key, i + 1)
    ELSE m

\* The inner loop of Add: replicas i, i+1, ... of one key.
RECURSIVE AddReplicas(_, _, _)
AddReplicas(m, key, i) ==
    IF i < m.replicas
    THEN LET hash == Hash(m.hash, Itoa(i) \o key)
         IN  AddReplicas([m EXCEPT !.keys = Append(m.keys, hash),
                                   !.hashMap = MapSet(m.hashMap, hash, key)],
                         key, i + 1)
    ELSE m

\* The outer loop of Add.
RECURSIVE AddKeys(_, _)
AddKeys(m, keys) ==
    IF keys = <<>> THEN m ELSE AddKeys(AddReplicas(m, Head(keys), 0), Tail(keys))

\* Add without `sort.Ints(m.keys)`.
\* Add with sort.Ints moved before the loops.
MapAdd_SortsFirst(m, keys) == AddKeys([m EXCEPT !.keys = SortInts(m.keys)], keys)

MapAdd_NoSort(m, keys) == AddKeys(m, keys)

MapAdd(m, keys) ==
    LET d == AddKeys(m, keys)
    IN  [d EXCEPT !.keys = SortInts(d.keys)]

\* sort.Search with f(i) = keys[i] > hash.
RECURSIVE Search_Strict(_, _, _, _)
Search_Strict(keys, hash, i, j) ==
    IF i < j
    THEN LET h == (i + j) \div 2
         IN  IF ~(keys[h + 1] > hash)
             THEN Search_Strict(keys, hash, h + 1, j)
             ELSE Search_Strict(keys, hash, i, h)
    ELSE i

\* sort.Search(n, f) with f(i) = keys[i] >= hash: binary search on [i, j),
\* indices from 0 as in Go.
RECURSIVE Search(_, _, _, _)
Search(keys, hash, i, j) ==
    IF i < j
    THEN LET h == (i + j) \div 2
         IN  IF ~(keys[h + 1] >= hash)
             THEN Search(keys, hash, h + 1, j)
             ELSE Search(keys, hash, i, h)
    ELSE i

\* Get that wraps around to the last position: `idx = len(m.keys) - 1`.
MapGet_WrapsToLast(m, key) ==
    IF IsEmpty(m)
    THEN EmptyString
    ELSE LET hash == Hash(m.hash, key)
             found == Search(m.keys, hash, 0, Len(m.keys))
             idx == IF found = Len(m.keys) THEN Len(m.keys) - 1 ELSE found
         IN  m.hashMap[m.keys[idx + 1]]

MapGet(m, key) ==
    IF IsEmpty(m)
    THEN EmptyString
    ELSE LET hash == Hash(m.hash, key)
             found == Search(m.keys, hash, 0, Len(m.keys))
             idx == IF found = Len(m.keys) THEN 0 ELSE found
         IN  m.hashMap[m.keys[idx + 1]]

(* ------------------------------- state --------------------------------- *)
VARIABLES
    c,          \* the Cache under test
    fresh,      \* a Cache made by New when c was last cleared (or made), given
                \* every operation c was given since
    lastOp,     \* the last operation: its name, arguments and results
    owed,       \* kept by the recording callback's owner: the Add calls that
                \* inserted a new key, less the OnEvicted calls
    added,      \* the keys passed to Add, as long as removals is FALSE
    removals,   \* whether Remove, RemoveOldest or Clear was ever called
    touched,    \* the present keys, least recently touched first
    m,          \* the consistent-hash Map under test
    nodes,      \* the node identifiers passed to Map.Add
    ringOp      \* the last Map operation: its name, argument and result

cacheVars == <<c, fresh, lastOp, owed, added, removals, touched>>
ringVars == <<m, nodes, ringOp>>
vars == <<c, fresh, lastOp, owed, added, removals, touched, m, nodes, ringOp>>

\* The keys of the map c.cache, and the entries of the list c.ll front first.
KeysOf(c0) == IF IsNil(c0.cache) THEN {} ELSE DOMAIN Val(c0.cache)
Entries(c0) ==
    IF IsNil(c0.ll) THEN <<>> ELSE [i \in 1..Len(Val(c0.ll)) |-> c0.elems[Val(c0.ll)[i]]]

\* The recording callback's buffer is read and emptied between two operations.
Drain(c0) == [c0 EXCEPT !.log = <<>>, !.seen = <<>>]

\* A touch of key moves it to the end of the touch order.
Touch(order, key) == Append(SelectSeq(order, LAMBDA k : k # key), key)
Present(order, c0) == SelectSeq(order, LAMBDA k : k \in KeysOf(c0))
Oldest(order) == IF order = <<>> THEN 0 ELSE Head(order)

\* The count of insertions less callbacks, after an operation that inserted
\* `inserted` keys and left c.log; there is none to keep without a callback.
Owed(inserted, log) == IF c.OnEvicted THEN owed + inserted - Len(log) ELSE owed

\* hit: whether the key was in the map when the operation was called;
\* nil: whether c.cache was nil then;
\* fret, fok: what the same call on fresh returned.
Op(name, key, value, ret, ok, fret, fok) ==
    [op |-> name, key |-> key, value |-> value, hit |-> key \in KeysOf(c),
     nil |-> IsNil(c.cache), ret |-> ret, ok |-> ok, fret |-> fret, fok |-> fok]

\* The Map, or the Cache, of a program that only uses the other one.
RingIdle ==
    /\ m = MapNew(0, "atoi")
    /\ nodes = {}
    /\ ringOp = [op |-> "New", arg |-> <<>>, ret |-> <<>>, empty |-> TRUE]

CacheIdle ==
    /\ c = New(0)
    /\ fresh = c
    /\ lastOp = [op |-> "New", key |-> 0, value |-> NoValue, hit |-> FALSE, nil |-> FALSE,
                 ret |-> NoValue, ok |-> FALSE, fret |-> NoValue, fok |-> FALSE]
    /\ owed = 0
    /\ added = {}
    /\ removals = FALSE
    /\ touched = <<>>

Init ==
    /\ \E maxEntries \in Capacities, onEvicted \in BOOLEAN :
          c = [New(maxEntries) EXCEPT !.OnEvicted = onEvicted]
    /\ fresh = c
    /\ lastOp = [op |-> "New", key |-> 0, value |-> NoValue, hit |-> FALSE, nil |-> FALSE,
                 ret |-> NoValue, ok |-> FALSE, fret |-> NoValue, fok |-> FALSE]
    /\ owed = 0
    /\ added = {}
    /\ removals = FALSE
    /\ touched = <<>>
    /\ RingIdle

DoAdd(key, value) ==
    /\ c' = Renumber(Add(Drain(c), key, value))
    /\ fresh' = Renumber(Add(Drain(fresh), key, value))
    /\ lastOp' = Op("Add", key, value, NoValue, FALSE, NoValue, FALSE)
    /\ owed' = Owed(IF key \in KeysOf(c) THEN 0 ELSE 1, c'.log)
    /\ added' = IF removals THEN {} ELSE added \cup {key}
    /\ touched' = Present(Touch(touched, key), c')
    /\ UNCHANGED <<removals, ringVars>>

DoGet(key) ==
    LET r == Get(Drain(c), key)
        f == Get(Drain(fresh), key)
    IN  /\ c' = Renumber(r.c)
        /\ fresh' = Renumber(f.c)
        /\ lastOp' = Op("Get", key, NoValue, r.value, r.ok, f.value, f.ok)
        /\ owed' = Owed(0, c'.log)
        /\ touched' = Present(IF r.ok THEN Touch(touched, key) ELSE touched, c')
        /\ UNCHANGED <<added, removals, ringVars>>

DoRemove(key) ==
    /\ c' = Renumber(Remove(Drain(c), key))
    /\ fresh' = Renumber(Remove(Drain(fresh), key))
    /\ lastOp' = Op("Remove", key, NoValue, NoValue, FALSE, NoValue, FALSE)
    /\ owed' = Owed(0, c'.log)
    /\ removals' = TRUE
    /\ added' = {}
    /\ touched' = Present(touched, c')
    /\ UNCHANGED ringVars

DoRemoveOldest ==
    /\ c' = Renumber(RemoveOldest(Drain(c)))
    /\ fresh' = Renumber(RemoveOldest(Drain(fresh)))
    /\ lastOp' = Op("RemoveOldest", 0, NoValue, NoValue, FALSE, NoValue, FALSE)
    /\ owed' = Owed(0, c'.log)
    /\ removals' = TRUE
    /\ added' = {}
    /\ touched' = Present(touched, c')
    /\ UNCHANGED ringVars

DoLen ==
    /\ c' = Drain(c)
    /\ fresh' = Drain(fresh)
    /\ lastOp' = Op("Len", 0, NoValue, CacheLen(c), FALSE, CacheLen(fresh), FALSE)
    /\ UNCHANGED <<owed, added, removals, touched, ringVars>>

\* Clear of c visits the map in `order`. The Cache fresh stood for is cleared
\* with it (visiting in the same order when it holds the same keys), and a
\* Cache made by New takes its place.
DoClear(order) ==
    LET forder == IF KeysOf(fresh) = KeysOf(c) THEN order
                  ELSE CHOOSE o \in RangeOrders(fresh) : TRUE
        f == Clear(Drain(fresh), forder)
    IN  /\ c' = Clear(Drain(c), order)
        /\ fresh' = [New(c.MaxEntries) EXCEPT !.OnEvicted = c.OnEvicted, !.log = f.log]
        /\ lastOp' = Op("Clear", 0, NoValue, NoValue, FALSE, NoValue, FALSE)
        /\ owed' = Owed(0, c'.log)
        /\ removals' = TRUE
        /\ added' = {}
        /\ touched' = Present(touched, c')
        /\ UNCHANGED ringVars

Next ==
    \/ \E key \in Keys, value \in Values : DoAdd(key, value)
    \/ \E key \in Keys : DoGet(key)
    \/ \E key \in Keys : DoRemove(key)
    \/ DoRemoveOldest
    \/ DoLen
    \/ \E order \in RangeOrders(c) : DoClear(order)

Spec == Init /\ [][Next]_vars

(* ------------------------- the ring's program -------------------------- *)
\* The node identifiers and the keys of the model: the even numbers in decimal
\* and "02", which hashes like "2" under both Hash functions; the numbers up
\* to MaxKey in decimal.
NodeIds == {Itoa(2 * n) : n \in 1..NumNodes} \cup {<<0, 2>>}
QueryKeys == {Itoa(n) : n \in 0..MaxKey}
ArgLists == UNION {[1..n -> NodeIds] : n \in 0..MaxArgs}

RingInit ==
    /\ \E replicas \in 0..MaxReplicas, fn \in HashFns : m = MapNew(replicas, fn)
    /\ nodes = {}
    /\ ringOp = [op |-> "New", arg |-> <<>>, ret |-> <<>>, empty |-> TRUE]
    /\ CacheIdle

DoMapAdd(keys) ==
    /\ Len(m.keys) + Len(keys) * m.replicas <= MaxRing
    /\ m' = MapAdd(m, keys)
    /\ nodes' = nodes \cup Range(keys)
    /\ ringOp' = [op |-> "Add", arg |-> keys, ret |-> <<>>, empty |-> IsEmpty(m')]
    /\ UNCHANGED cacheVars

\* Get that stores the node it found under the key's own hash.
DoMapGet_Caches(key) ==
    /\ ringOp' = [op |-> "Get", arg |-> key, ret |-> MapGet(m, key), empty |-> IsEmpty(m)]
    /\ m' = IF IsEmpty(m) THEN m
            ELSE [m EXCEPT !.hashMap = MapSet(m.hashMap, Hash(m.hash, key), MapGet(m, key))]
    /\ UNCHANGED <<nodes, cacheVars>>

DoMapGet(key) ==
    /\ ringOp' = [op |-> "Get", arg |-> key, ret |-> MapGet(m, key), empty |-> IsEmpty(m)]
    /\ UNCHANGED <<m, nodes, cacheVars>>

DoIsEmpty ==
    /\ ringOp' = [op |-> "IsEmpty", arg |-> <<>>, ret |-> <<>>, empty |-> IsEmpty(m)]
    /\ UNCHANGED <<m, nodes, cacheVars>>

RingNext ==
    \/ \E keys \in ArgLists : DoMapAdd(keys)
    \/ \E key \in QueryKeys : DoMapGet(key)
    \/ DoIsEmpty

RingSpec == RingInit /\ [][RingNext]_vars

(* ------------------------- claims: lru.Cache --------------------------- *)
\* What a caller can observe of two Caches is the same: the entries in recency
\* order, the keys of the index and Len().
Same(c0, c1) ==
    /\ Entries(c1) = Entries(c0)
    /\ KeysOf(c1) = KeysOf(c0)
    /\ CacheLen(c1) = CacheLen(c0)

Pairs(c0) == {<<Entries(c0)[i].key, Entries(c0)[i].value>> : i \in DOMAIN Entries(c0)}

\* C1: with a capacity > 0, after every completed operation Len() is at most
\* the capacity.
C1_LenAtMostCapacity == c.MaxEntries > 0 => CacheLen(c) <= c.MaxEntries

\* Capacity 2, three distinct keys added and nothing removed by the caller:
\* two entries are left.
C1_Witness ==
    /\ c.MaxEntries = 2
    /\ lastOp.op = "Add" /\ ~lastOp.hit
    /\ ~removals /\ Cardinality(added) = 3
    /\ CacheLen(c) = 2

\* C2: the entry RemoveOldest removes, called directly or by an Add over
\* capacity, is the present entry least recently touched (inserted or updated
\* by Add, or hit by Get); after a Get hit on the oldest key of two or more,
\* the next entry to be evicted is another one.
C2_EvictsLeastRecentlyTouched ==
    [][LET gone == KeysOf(c) \ KeysOf(c')
           next == KeysOf(c') \ KeysOf(RemoveOldest(c'))
       IN  /\ lastOp'.op = "RemoveOldest" =>
                 gone = (IF touched = <<>> THEN {} ELSE {Head(touched)})
           /\ lastOp'.op = "Add" =>
                 /\ gone \subseteq {Oldest(touched)}
                 /\ Len(c'.log) = Cardinality(gone) \/ ~c.OnEvicted
           /\ (lastOp'.op = "Get" /\ lastOp'.ok /\ CacheLen(c) >= 2
                  /\ lastOp'.key = Oldest(touched)) =>
                 /\ next # {}
                 /\ lastOp'.key \notin next
      ]_vars

\* An Add over capacity evicted the key that was least recently touched.
C2_Witness ==
    /\ lastOp.op = "Add" /\ ~lastOp.hit
    /\ c.MaxEntries = 2
    /\ CacheLen(c) = 2
    /\ Len(c.log) = 1
    /\ c.log[1][1] \notin KeysOf(c)

\* C3: Add(k, v2) on a present key replaces the value in place: Len() is
\* unchanged, no entry leaves, the callback is not invoked, k is the most
\* recently used entry and Get(k) then returns (v2, true).
C3_AddUpdatesInPlace ==
    [][(lastOp'.op = "Add" /\ lastOp'.hit) =>
          /\ CacheLen(c') = CacheLen(c)
          /\ KeysOf(c') = KeysOf(c)
          /\ c'.log = <<>>
          /\ Entries(c')[1] = [key |-> lastOp'.key, value |-> lastOp'.value]
          /\ Get(c', lastOp'.key).ok
          /\ Get(c', lastOp'.key).value = lastOp'.value
      ]_vars

\* An Add of a present key to a full Cache with a callback.
C3_Witness ==
    /\ lastOp.op = "Add" /\ lastOp.hit
    /\ c.OnEvicted
    /\ CacheLen(c) = 2 /\ c.MaxEntries = 2

\* C4: Remove(k) on a present key invokes the callback once, with k and the
\* value stored for k, decreases Len() by one and makes Get(k) miss; the other
\* entries and their order are unchanged.
C4_RemovePresent ==
    [][(lastOp'.op = "Remove" /\ lastOp'.hit) =>
          /\ c.OnEvicted => c'.log = << <<lastOp'.key, Get(c, lastOp'.key).value>> >>
          /\ CacheLen(c') = CacheLen(c) - 1
          /\ ~Get(c', lastOp'.key).ok
          /\ Entries(c') = SelectSeq(Entries(c), LAMBDA e : e.key # lastOp'.key)
      ]_vars

\* A Remove of a present key, with a callback, that left two entries.
C4_Witness ==
    /\ lastOp.op = "Remove" /\ lastOp.hit
    /\ c.OnEvicted /\ Len(c.log) = 1 /\ c.log[1][1] = lastOp.key
    /\ CacheLen(c) = 2

\* C5: Clear() on a Cache of N entries with a callback invokes the callback N
\* times, once for each present key with its value and for no other key;
\* afterwards Len() = 0 and Get of every key misses.
C5_ClearCallsBackEveryEntry ==
    [][(lastOp'.op = "Clear" /\ c.OnEvicted) =>
          /\ Len(c'.log) = CacheLen(c)
          /\ Range(c'.log) = Pairs(c)
          /\ \A i, j \in DOMAIN c'.log : c'.log[i][1] = c'.log[j][1] => i = j
          /\ CacheLen(c') = 0
          /\ \A k \in Keys : ~Get(c', k).ok
      ]_vars

\* A Clear, with a callback, of a Cache that held three entries.
C5_Witness ==
    /\ lastOp.op = "Clear"
    /\ c.OnEvicted /\ Len(c.log) = 3
    /\ CacheLen(c) = 0

\* C6: a cleared Cache cannot be told from one made by New with the same
\* capacity and callback: every operation after Clear() returns, and calls
\* back, what it does on the Cache made by New, and Len() agrees.
C6_ClearedIsFresh ==
    /\ lastOp.ret = lastOp.fret
    /\ lastOp.ok = lastOp.fok
    /\ c.log = fresh.log
    /\ CacheLen(c) = CacheLen(fresh)
    /\ Entries(c) = Entries(fresh)

\* An Add to a Cache that Clear had left with a nil map and list: it holds
\* the added entry, as fresh does.
C6_Witness ==
    /\ lastOp.op = "Add" /\ lastOp.nil
    /\ CacheLen(c) = 1
    /\ Get(c, lastOp.key).ok
    /\ Entries(fresh) = <<[key |-> lastOp.key, value |-> lastOp.value]>>

\* C7: with capacity 0 no Add evicts: Add never invokes the callback, and as
\* long as nothing but Add (and Get, Len) was called every added key is present
\* and Len() is the number of distinct keys added.
C7_UnboundedNeverEvicts ==
    c.MaxEntries = 0 =>
        /\ lastOp.op = "Add" => c.log = <<>>
        /\ ~removals =>
              /\ CacheLen(c) = Cardinality(added)
              /\ \A k \in added : Get(c, k).ok

\* Capacity 0, a callback, and every key added: more entries than any of the
\* capacities of the model.
C7_Witness ==
    /\ c.MaxEntries = 0 /\ c.OnEvicted
    /\ ~removals
    /\ lastOp.op = "Add" /\ ~lastOp.hit
    /\ added = Keys
    /\ CacheLen(c) > MaxCap

\* C8: the callback is invoked once for every entry that leaves the Cache and
\* never otherwise: the number of callbacks is the number of Adds that inserted
\* a key less Len() (for a Cache with a callback).
C8_CallbacksBalance == c.OnEvicted => owed = CacheLen(c)

\* After a call of Remove, RemoveOldest or Clear, an Add over capacity evicted
\* an entry of a Cache with a callback.
C8_Witness ==
    /\ c.OnEvicted
    /\ removals
    /\ lastOp.op = "Add" /\ Len(c.log) = 1
    /\ owed = 2

\* C9: Get of an absent key returns found = false, and Get or Remove of an
\* absent key and RemoveOldest on an empty Cache (also one just cleared) leave
\* the entries, their values, their order and Len() unchanged and invoke the
\* callback zero times.
C9_MissesAreNoOps ==
    [][/\ (lastOp'.op = "Get" /\ ~lastOp'.hit) =>
             ~lastOp'.ok /\ lastOp'.ret = NoValue /\ Same(c, c') /\ c'.log = <<>>
       /\ (lastOp'.op = "Remove" /\ ~lastOp'.hit) => Same(c, c') /\ c'.log = <<>>
       /\ (lastOp'.op = "RemoveOldest" /\ CacheLen(c) = 0) => Same(c, c') /\ c'.log = <<>>
      ]_vars

\* A miss of Remove on a Cache with a callback that holds other entries.
C9_Witness ==
    /\ lastOp.op = "Remove" /\ ~lastOp.hit
    /\ c.OnEvicted
    /\ CacheLen(c) = 2

(* --------------------- claims: consistenthash.Map ---------------------- *)
Min(S) == CHOOSE x \in S : \A y \in S : x <= y
Max(S) == CHOOSE x \in S : \A y \in S : x >= y

\* The ring position a key belongs to: the smallest position >= hash(key),
\* or the smallest position of all when there is none.
Owner(m0, key) ==
    LET h == Hash(m0.hash, key)
        P == Range(m0.keys)
        S == {p \in P : p >= h}
    IN  IF S # {} THEN Min(S) ELSE Min(P)

\* C10: on a non-empty ring Get(key) returns the node mapped to the smallest
\* ring position >= hash(key), and the node mapped to the smallest position of
\* all when hash(key) is greater than every position; also on rings with
\* duplicate positions.
C10_GetSmallestPositionAtLeastHash ==
    (ringOp.op = "Get" /\ ~IsEmpty(m)) =>
        ringOp.ret = m.hashMap[Owner(m, ringOp.arg)]

\* A Get that wrapped around on a ring of several positions, one of them twice.
C10_Witness ==
    /\ ringOp.op = "Get" /\ ~IsEmpty(m)
    /\ Cardinality(Range(m.keys)) < Len(m.keys)
    /\ Cardinality(Range(m.keys)) >= 3
    /\ Hash(m.hash, ringOp.arg) > Max(Range(m.keys))
    /\ ringOp.ret = m.hashMap[m.keys[1]]

\* C11: on a non-empty ring Get(key) returns a node identifier that was passed
\* to an earlier Add call (so not the empty string, which is none of the
\* model's node identifiers).
C11_GetReturnsAddedNode ==
    (ringOp.op = "Get" /\ ~IsEmpty(m)) =>
        /\ ringOp.ret \in nodes
        /\ ringOp.ret # EmptyString

\* A Get on a ring of three or more nodes, one of which shares its position
\* with another.
C11_Witness ==
    /\ ringOp.op = "Get" /\ ~IsEmpty(m)
    /\ Cardinality(nodes) >= 3
    /\ Cardinality(Range(m.keys)) < Len(m.keys)
    /\ ringOp.ret \in nodes

\* C12: IsEmpty() is true exactly when no ring position was generated: before
\* any node was added, and for ever with replicas = 0; Get then returns the
\* empty string for every key.
C12_EmptyRing ==
    LET none == nodes = {} \/ m.replicas = 0
    IN  /\ IsEmpty(m) <=> none
        /\ ringOp.empty <=> none
        /\ (ringOp.op = "Get" /\ none) => ringOp.ret = EmptyString

\* A Get on a ring with replicas = 0 that was given two nodes or more.
C12_Witness ==
    /\ m.replicas = 0
    /\ Cardinality(nodes) >= 2
    /\ ringOp.op = "Get"
    /\ ringOp.ret = EmptyString
    /\ ringOp.empty

\* C13: Get and IsEmpty do not change the ring: keys and hashMap are the same
\* after as before, so Get of the same key again returns the same node.
C13_GetLeavesRing ==
    [][(ringOp'.op \in {"Get", "IsEmpty"}) =>
          /\ m'.keys = m.keys
          /\ m'.hashMap = m.hashMap
          /\ ringOp'.op = "Get" => MapGet(m', ringOp'.arg) = ringOp'.ret
      ]_vars

\* A Get on a ring of three positions or more, two of them equal.
C13_Witness ==
    /\ ringOp.op = "Get"
    /\ Len(m.keys) >= 3
    /\ Cardinality(Range(m.keys)) < Len(m.keys)
    /\ MapGet(m, ringOp.arg) = ringOp.ret

\* The ring of the example: the digit-value hash, replicas = 1 and nodes at
\* the positions P; At(n) is the position of node n.
Example(P) == m.hash = "atoi" /\ m.replicas = 1 /\ Range(m.keys) = P
At(n) == Hash("atoi", Itoa(0) \o n)
Asked(key) == ringOp.op = "Get" /\ ringOp.arg = key

\* C14: with the digit-value hash, replicas = 1 and nodes at the positions 2,
\* 4 and 6, Get("2"), Get("11"), Get("23") and Get("27") return the node at 2.
C14_ExampleRing ==
    (Example({2, 4, 6}) /\ ringOp.op = "Get"
        /\ ringOp.arg \in {<<2>>, <<1, 1>>, <<2, 3>>, <<2, 7>>}) =>
        /\ ringOp.ret \in nodes
        /\ At(ringOp.ret) = 2

\* Get("27") on the ring of positions 2, 4 and 6.
C14_Witness ==
    /\ Example({2, 4, 6})
    /\ Asked(<<2, 7>>)
    /\ At(ringOp.ret) = 2

\* C15 as stated: on the ring of the example after a node at position 8 was
\* added, Get("27") returns the node at 8 and Get("2"), Get("11"), Get("23")
\* return the node at 2.
C15_AsStated ==
    (Example({2, 4, 6, 8}) /\ ringOp.op = "Get"
        /\ ringOp.arg \in {<<2>>, <<1, 1>>, <<2, 3>>, <<2, 7>>}) =>
        /\ ringOp.ret \in nodes
        /\ At(ringOp.ret) = IF ringOp.arg = <<2, 7>> THEN 8 ELSE 2

\* C15: on the ring of the example after a node at position 8 was added,
\* Get("27") still returns the node at position 2, for 27 is beyond every
\* position, and so do Get("2"), Get("11") and Get("23").
C15_ExampleRingWithEight ==
    (Example({2, 4, 6, 8}) /\ ringOp.op = "Get"
        /\ ringOp.arg \in {<<2>>, <<1, 1>>, <<2, 3>>, <<2, 7>>}) =>
        /\ ringOp.ret \in nodes
        /\ At(ringOp.ret) = 2

\* Get("27") on the ring of positions 2, 4, 6 and 8.
C15_Witness ==
    /\ Example({2, 4, 6, 8})
    /\ <<8>> \in nodes
    /\ Asked(<<2, 7>>)
    /\ At(ringOp.ret) = 2

\* C16: an Add to a non-empty ring moves keys onto the added nodes only: for
\* every key, Get after the Add returns what Get returned before it, or one
\* of the arguments of the Add.
C16_AddMovesKeysToAddedNodes ==
    [][(ringOp'.op = "Add" /\ ~IsEmpty(m)) =>
          \A added0 \in {Range(ringOp'.arg)} :
              \A key \in QueryKeys :
                  \A after \in {MapGet(m', key)} :
                      after \in added0 \/ after = MapGet(m, key)
      ]_vars

\* An Add to a non-empty ring that put a node on a position already taken
\* and another node below every position there was.
C16_Witness ==
    /\ ringOp.op = "Add"
    /\ Len(m.keys) > Len(ringOp.arg) * m.replicas
    /\ Cardinality(Range(m.keys)) < Len(m.keys)
    /\ \E n \in Range(ringOp.arg) : m.replicas > 0 /\ m.hashMap[m.keys[1]] = n
    /\ \E p \in Range(m.keys) : m.hashMap[p] \notin Range(ringOp.arg)

\* C19: after every Add, whatever its arguments, the positions are in
\* ascending order and hashMap is keyed by exactly the positions.
C19_SortedAndIndexed ==
    /\ \A i \in 1..(Len(m.keys) - 1) : m.keys[i] <= m.keys[i + 1]
    /\ DOMAIN m.hashMap = Range(m.keys)

\* An Add of one node twice, or of two nodes on one position, to a ring that
\* had a greater position.
C19_Witness ==
    /\ ringOp.op = "Add"
    /\ Len(ringOp.arg) = 2
    /\ m.replicas > 0
    /\ At(ringOp.arg[1]) = At(ringOp.arg[2])
    /\ Len(m.keys) > 2 * m.replicas
    /\ m.hashMap[m.keys[Len(m.keys)]] \notin Range(ringOp.arg)

\* The positions an Add writes and the node it writes to each, in the order
\* of its writes: argument by argument, and replica by replica within one.
Writes(m0, keys) ==
    [n \in 1..(Len(keys) * m0.replicas) |->
        LET a == (n - 1) \div m0.replicas + 1
            i == (n - 1) % m0.replicas
        IN  <<Hash(m0.hash, Itoa(i) \o keys[a]), keys[a]>>]

\* C20: a position belongs to the node written to it last: an Add leaves
\* each position it wrote to the node of its last write there and every other
\* position to the node it had, and a Get that falls to a position returns
\* the node the position belongs to.
C20_LastWriteOwnsPosition ==
    [][/\ ringOp'.op = "Add" =>
              \A w \in {Writes(m, ringOp'.arg)} :
                  \A p \in Range(m'.keys) :
                      IF \E n \in DOMAIN w : w[n][1] = p
                      THEN \E n \in DOMAIN w :
                               /\ w[n][1] = p
                               /\ \A k \in DOMAIN w : k > n => w[k][1] # p
                               /\ m'.hashMap[p] = w[n][2]
                      ELSE m'.hashMap[p] = m.hashMap[p]
       /\ (ringOp'.op = "Get" /\ ~IsEmpty(m')) =>
              ringOp'.ret = m'.hashMap[Owner(m', ringOp'.arg)]
      ]_vars

\* Two distinct nodes were put on one position by three writes, the last of
\* them an Add of one node alone, which owns the position.
C20_Witness ==
    /\ ringOp.op = "Add"
    /\ Len(ringOp.arg) = 1
    /\ m.replicas = 1
    /\ Len(m.keys) = 3
    /\ Cardinality(nodes) = 2
    /\ Cardinality(Range(m.keys)) = 1
    /\ m.hashMap[m.keys[1]] = ringOp.arg[1]

(* ------------------------- claims: lru.Cache, 2 ------------------------- *)
\* C17: a callback called by Remove, by RemoveOldest or by the eviction in
\* Add finds its key neither in the list nor in the map and Len() already
\* one less; every callback called by Clear finds all the entries still
\* there, its own among them.
C17_DetachedBeforeCallback ==
    [][/\ Len(c'.seen) = Len(c'.log)
       /\ \A i \in DOMAIN c'.seen :
              LET k == c'.log[i][1]
                  s == c'.seen[i]
              IN  /\ lastOp'.op \in {"Remove", "RemoveOldest"} =>
                         /\ k \notin s.index /\ k \notin s.list
                         /\ s.len = CacheLen(c) - 1
                  /\ lastOp'.op = "Add" =>
                         /\ k \notin s.index /\ k \notin s.list
                         /\ s.len = (CacheLen(c) + 1) - 1
                  /\ lastOp'.op = "Clear" =>
                         /\ k \in s.index /\ k \in s.list
                         /\ s.index = KeysOf(c) /\ s.list = KeysOf(c)
                         /\ s.len = CacheLen(c) /\ s.len = Len(c'.log)
      ]_vars

\* A Clear of three entries whose callbacks each found three.
C17_WitnessClear ==
    /\ lastOp.op = "Clear"
    /\ c.OnEvicted
    /\ Len(c.seen) = 3
    /\ \A i \in DOMAIN c.seen : c.seen[i].len = 3 /\ c.log[i][1] \in c.seen[i].index

\* An Add over capacity whose callback found two entries, its own not among
\* them.
C17_Witness ==
    /\ lastOp.op = "Add"
    /\ c.OnEvicted
    /\ Len(c.seen) = 1
    /\ c.seen[1].len = 2
    /\ c.log[1][1] \notin c.seen[1].index \cup c.seen[1].list

\* C18: after every completed operation the map's keys are the keys of the
\* entries in the list, each key has one entry in the list, the map takes
\* each key to the element that holds the entry of that key, and Len() is
\* the number of the map's keys.
C18_IndexMatchesList ==
    LET l == IF IsNil(c.ll) THEN <<>> ELSE Val(c.ll)
        idx == IF IsNil(c.cache) THEN EmptyMap ELSE Val(c.cache)
    IN  /\ IsNil(c.ll) <=> IsNil(c.cache)
        /\ DOMAIN idx = {c.elems[l[i]].key : i \in DOMAIN l}
        /\ \A i, j \in DOMAIN l : c.elems[l[i]].key = c.elems[l[j]].key => i = j
        /\ \A k \in DOMAIN idx : idx[k] \in Range(l) /\ c.elems[idx[k]].key = k
        /\ CacheLen(c) = Cardinality(DOMAIN idx)

\* A Get that hit and moved the oldest of three entries to the front, after
\* entries had been removed.
C18_Witness ==
    /\ lastOp.op = "Get" /\ lastOp.ok
    /\ removals
    /\ CacheLen(c) = 3
    /\ Len(touched) = 3 /\ touched[3] = lastOp.key
    /\ Entries(c)[1].key = lastOp.key

=============================================================================
